---- MODULE Spec2Model ----
(***************************************************************************)
(* Adversarial hangman (src/Hangman.py).                                   *)
(*                                                                         *)
(* Strings are modelled as sequences of one-character strings, so that     *)
(* len(), indexing, str.count, str.lower, `in` and ''.join keep their      *)
(* meaning.  A set of words is a set of such sequences, and the partition  *)
(* dictionary is a function from masks to sets of words.                   *)
(*                                                                         *)
(* Two specifications are given:                                           *)
(*   Spec      the interactive game play_hangman, one action per prompt;   *)
(*   TestSpec  the unit tests of mask_word, partition and max_partition,   *)
(*             with their random inputs drawn from bounded sets.           *)
(***************************************************************************)
EXTENDS Integers, Sequences, FiniteSets, TLC

----------------------------------------------------------------------------
(* Bounds of the model *)

\* longest word in the word file
MaxLen == 2
\* number of words in the word file / in a test sample
MaxWords == 2
\* number of distinct letters the words are written with
NumWordLetters == 2
\* number of distinct letters the player may type
NumGuessLetters == 7
\* number of distinct characters other than letters the words may hold
NumOtherChars == 0

Alphabet == <<"a", "b", "c", "d", "e", "f", "g", "h", "i", "j">>

WordLetters == {Alphabet[i] : i \in 1..NumWordLetters}
GuessLetters == {Alphabet[i] : i \in 1..NumGuessLetters}

\* load_words does not validate the characters of a line: a word may hold
\* characters that are no letters, such as a hyphen, which is also the
\* placeholder of mask_word.
OtherChars == <<"-", "'">>
WordChars == WordLetters \cup {OtherChars[i] : i \in 1..NumOtherChars}

AllWords == UNION {[1..n -> WordChars] : n \in 1..MaxLen}

RECURSIVE SubsetsUpTo(_, _)
SubsetsUpTo(S, n) ==
    IF n = 0 THEN {{}}
    ELSE LET smaller == SubsetsUpTo(S, n - 1)
         IN  smaller \cup {T \cup {x} : T \in smaller, x \in S}

----------------------------------------------------------------------------
(* Python string helpers *)

\* str.count(ch)
RECURSIVE count(_, _)
count(s, ch) ==
    IF s = <<>> THEN 0
    ELSE (IF Head(s) = ch THEN 1 ELSE 0) + count(Tail(s), ch)

\* ch in s, for a string s
contains(s, ch) == \E i \in 1..Len(s) : s[i] = ch

----------------------------------------------------------------------------
(* mask_word, partition, max_partition *)

\* mask_letter with the test inverted
mask_letter_inverted(letter, guessed_set) ==
    IF letter \in guessed_set THEN "-" ELSE letter

\* the piece the generator of mask_word yields for one letter
mask_letter(letter, guessed_set) == IF letter \in guessed_set THEN letter ELSE "-"

\* ''.join(letter if letter in guessed else '-' for letter in word)
RECURSIVE mask_word(_, _)
mask_word(word, guessed_set) ==
    IF word = <<>> THEN <<>>
    ELSE <<mask_letter(Head(word), guessed_set)>> \o mask_word(Tail(word), guessed_set)

\* add_to_partition assigning the bucket instead of adding to it
add_to_partition_assign(parts, masked, word) ==
    [m \in DOMAIN parts \cup {masked} |->
        IF m = masked THEN {word} ELSE parts[m]]

\* partitions[masked].add(word) on a defaultdict(set)
add_to_partition(parts, masked, word) ==
    IF masked \in DOMAIN parts
    THEN [parts EXCEPT ![masked] = @ \cup {word}]
    ELSE [m \in DOMAIN parts \cup {masked} |->
             IF m = masked THEN {word} ELSE parts[m]]

\* the for loop of partition, over the words still to visit
RECURSIVE partition_loop(_, _, _)
partition_loop(parts, todo, guessed_set) ==
    IF todo = {} THEN parts
    ELSE LET word == CHOOSE w \in todo : TRUE
             masked == mask_word(word, guessed_set)
         IN  partition_loop(add_to_partition(parts, masked, word),
                            todo \ {word}, guessed_set)

EmptyDict == [m \in {} |-> {}]

partition(word_set, guessed_set) == partition_loop(EmptyDict, word_set, guessed_set)

\* max(len(words) for words in partitions.values())
max_size(parts) ==
    CHOOSE n \in {Cardinality(parts[m]) : m \in DOMAIN parts} :
        \A m \in DOMAIN parts : Cardinality(parts[m]) <= n

\* largest_partitions without its filter
largest_partitions_unfiltered(parts) == DOMAIN parts

\* [mask for mask, words in partitions.items() if len(words) == max_size]
largest_partitions(parts) ==
    {m \in DOMAIN parts : Cardinality(parts[m]) = max_size(parts)}

\* largest_partitions.sort(key=lambda mask: mask.count('-')): ascending in the
\* number of hyphens; the order among equal keys is the dictionary's order,
\* which depends on set iteration and is left open by CHOOSE.
RECURSIVE sort_by_hyphens(_)
sort_by_hyphens(masks) ==
    IF masks = {} THEN <<>>
    ELSE LET first == CHOOSE m \in masks :
                 \A o \in masks : count(m, "-") <= count(o, "-")
         IN  <<first>> \o sort_by_hyphens(masks \ {first})

\* random.choice(seq): every element of the list is a possible result
random_choice(seq) == {seq[i] : i \in 1..Len(seq)}

\* the set of masks max_partition may return
max_partition(parts) ==
    random_choice(sort_by_hyphens(largest_partitions(parts)))

----------------------------------------------------------------------------
(* Text typed at the prompts *)

Upper == [c \in {"A", "B", "Q", "U", "I", "T", "Y", "N"} |->
             CASE c = "A" -> "a" [] c = "B" -> "b" [] c = "Q" -> "q"
               [] c = "U" -> "u" [] c = "I" -> "i" [] c = "T" -> "t"
               [] c = "Y" -> "y" [] c = "N" -> "n"]

LowerLetters == {Alphabet[i] : i \in 1..Len(Alphabet)} \cup {"q", "u", "t", "y", "n", "x"}
Digits == <<"0", "1", "2", "3", "4", "5", "6", "7", "8", "9">>
DigitChars == {Digits[i] : i \in 1..10}

\* lower leaving capitals as they are
lower_unchanged(s) == s

\* str.lower()
lower(s) == [i \in 1..Len(s) |-> IF s[i] \in DOMAIN Upper THEN Upper[s[i]] ELSE s[i]]

\* str.isalpha(): non-empty and every character a letter
isalpha(s) ==
    /\ s # <<>>
    /\ \A i \in 1..Len(s) : s[i] \in LowerLetters \cup DOMAIN Upper

\* str.strip()
RECURSIVE lstrip(_)
lstrip(s) == IF s # <<>> /\ Head(s) = " " THEN lstrip(Tail(s)) ELSE s
RECURSIVE rstrip(_)
rstrip(s) ==
    IF s # <<>> /\ s[Len(s)] = " " THEN rstrip(SubSeq(s, 1, Len(s) - 1)) ELSE s
strip(s) == lstrip(rstrip(s))

digit_value(ch) == CHOOSE d \in 0..9 : Digits[d + 1] = ch

RECURSIVE digits_value(_)
digits_value(s) ==
    IF s = <<>> THEN 0
    ELSE 10 * digits_value(SubSeq(s, 1, Len(s) - 1)) + digit_value(s[Len(s)])

\* int(text): surrounding blanks are dropped, one optional sign, then at
\* least one decimal digit; anything else raises ValueError (ok = FALSE)
int(text) ==
    LET t == strip(text)
        signed == t # <<>> /\ Head(t) \in {"-", "+"}
        body == IF signed THEN Tail(t) ELSE t
        valid == body # <<>> /\ \A i \in 1..Len(body) : body[i] \in DigitChars
    IN  IF ~valid THEN [ok |-> FALSE, value |-> 0]
        ELSE [ok |-> TRUE,
              value |-> IF signed /\ Head(t) = "-"
                        THEN 0 - digits_value(body) ELSE digits_value(body)]

abs(n) == IF n < 0 THEN 0 - n ELSE n

\* '-' * n
hyphens(n) == [i \in 1..n |-> "-"]

quit == <<"q", "u", "i", "t">>

\* lines typed at the word-length prompt
LengthInputs ==
    {quit, <<"Q", "u", "i", "t">>, <<"x">>, <<"1", "-">>, <<"0">>, <<" ", "1">>}
    \cup {<<Digits[n + 1]>> : n \in 1..(MaxLen + 1)}
    \cup {<<"-", Digits[n + 1]>> : n \in 1..(MaxLen + 1)}

\* lines typed at the letter prompt
LetterInputs ==
    {<<l>> : l \in GuessLetters}
    \cup {<<"A">>, <<"1">>, <<"-">>, <<>>, <<"a", "b">>, quit}

\* lines typed at the replay prompt
ReplayInputs ==
    {<<"y">>, <<"n">>, <<"Y">>, <<" ", "n", " ">>, <<"x">>, <<>>, quit}

\* contents the word file may have after load_words: at most MaxWords
\* distinct words, possibly none (also the result for a missing file)
WordLists == SubsetsUpTo(AllWords, MaxWords)

----------------------------------------------------------------------------
(* State *)

\* The state of play_hangman is taken where it waits for a line of input.
\* previous_hint, partitions and guess are rebound on every pass before they
\* are read, so they are temporaries of GuessLetter and not part of the
\* state.  Printed text is not kept, except the word of the loss message,
\* the error reported for a refused letter and what the latest pass of the
\* main loop reported about its guess.
VARIABLES
    phase,              \* the prompt play_hangman waits at
    word_list,          \* the words load_words returned
    word_length,        \* the last integer read at the length prompt
    words,              \* the candidate words
    show_details,
    guessed,
    remaining_guesses,
    hint,
    won,
    revealed,           \* the word shown by the loss message of this round
    ve,                 \* the ValueError caught for the last line of the
                        \* letter prompt, <<>> if that line was accepted
    printed,            \* what the latest pass of the main loop printed
                        \* about its guess (lines 124-132), <<>> if nothing
    test_words,         \* unit tests: the sample of words
    guessed_letters,    \* unit tests: the sample of letters
    test_word,
    masked_result,
    test_partitions,
    max_part,
    ran,                \* unit tests that have run
    phase2,             \* a second run of play_hangman on the same word
    word_length2,       \* list, for comparing two runs: its prompt and
    words2,             \* its locals
    show_details2,
    guessed2,
    remaining_guesses2,
    hint2,
    won2

locals == <<word_list, word_length, words, show_details, guessed,
            remaining_guesses, hint, won, revealed, ve, printed>>
game_vars == <<phase, locals>>
test_vars == <<test_words, guessed_letters, test_word, masked_result,
               test_partitions, max_part, ran>>
locals2 == <<word_length2, words2, show_details2, guessed2,
             remaining_guesses2, hint2, won2>>
pair_vars == <<phase2, locals2>>
vars == <<game_vars, test_vars, pair_vars>>

\* The locals of play_hangman that are not bound hold neutral values.
Unbound ==
    /\ word_length = 0
    /\ words = {}
    /\ show_details = FALSE
    /\ guessed = {}
    /\ remaining_guesses = 0
    /\ hint = <<>>
    /\ won = FALSE
    /\ revealed = <<>>
    /\ ve = <<>>
    /\ printed = <<>>

\* play_hangman has loaded the file and is about to test the list.  The
\* list is only ever read through `not word_list` and the comprehension
\* that filters it into a set, so it is kept as the set of its elements.
GameStart ==
    /\ phase = "Init"
    /\ word_list \in WordLists
    /\ Unbound

TestsIdle ==
    /\ test_words = {}
    /\ guessed_letters = {}
    /\ test_word = <<>>
    /\ masked_result = <<>>
    /\ test_partitions = EmptyDict
    /\ max_part = <<>>
    /\ ran = {}

\* The locals of the second run that are not bound hold neutral values.
Unbound2 ==
    /\ word_length2 = 0
    /\ words2 = {}
    /\ show_details2 = FALSE
    /\ guessed2 = {}
    /\ remaining_guesses2 = 0
    /\ hint2 = <<>>
    /\ won2 = FALSE

\* no second run
PairIdle == phase2 = "Terminated" /\ Unbound2

Init == GameStart /\ TestsIdle /\ PairIdle

----------------------------------------------------------------------------
(* play_hangman *)

\* return: the function's locals cease to exist
Return ==
    /\ phase' = "Terminated"
    /\ word_list' = {}
    /\ word_length' = 0
    /\ words' = {}
    /\ show_details' = FALSE
    /\ guessed' = {}
    /\ remaining_guesses' = 0
    /\ hint' = <<>>
    /\ won' = FALSE
    /\ revealed' = <<>>
    /\ ve' = <<>>
    /\ printed' = <<>>

\* if not word_list: ... return
CheckWordList ==
    /\ phase = "Init"
    /\ IF word_list = {}
       THEN Return
       ELSE /\ phase' = "LengthSelection"
            /\ UNCHANGED locals

\* loss_reveal always showing the same candidate
loss_reveal_fixed(word_set) == {CHOOSE w \in word_set : TRUE}

\* random.choice(list(words)) of the loss message
loss_reveal(word_set) == word_set

\* The end of the main loop, reached when its condition is false or by the
\* break of a win: the loss message is printed only if not won, and the
\* replay prompt follows.
RoundOver(is_won, word_set) ==
    /\ phase' = "Replay"
    /\ IF is_won
       THEN revealed' = <<>>
       ELSE revealed' \in loss_reveal(word_set)

\* loop_condition without the test of the budget
loop_condition_hint_only(remaining, h) == contains(h, "-")

\* while remaining_guesses > 0 and '-' in hint
loop_condition(remaining, h) == remaining > 0 /\ contains(h, "-")

\* is_miss never counting a miss
is_miss_never(letter, h) == FALSE

\* if guess not in hint
is_miss(letter, h) == ~contains(h, letter)

\* no_progress with previous_hint taken after the hint is replaced
no_progress_late(previous_hint, h) == h = h

\* if previous_hint == hint: "did not change the word"
no_progress(previous_hint, h) == previous_hint = h

\* the lines printed about an accepted guess: whether the letter is in the
\* word, and after it the line about a hint that did not change
report(letter, previous_hint, h) ==
    (IF is_miss(letter, h)
     THEN <<"is not in the word">> ELSE <<"is in the word">>)
    \o (IF no_progress(previous_hint, h)
        THEN <<"did not change the word">> ELSE <<>>)

\* words_of_length without its filter
words_of_length_unfiltered(list, n) == list

\* words_of_length comparing with the signed length
words_of_length_signed(list, n) == {word \in list : Len(word) = n}

\* {word for word in word_list if len(word) == abs(word_length)}
words_of_length(list, n) == {word \in list : Len(word) = abs(n)}

\* no_words never refusing a length
no_words_never(word_set) == FALSE

\* if not words
no_words(word_set) == word_set = {}

\* remaining_guesses = 5
InitialGuesses == 5

\* the guessed letters carried over from the previous round
new_round_guessed_stale == guessed

\* guessed = set()
new_round_guessed == {}

\* not_single_letter without the test of the length
not_single_letter_any_length(guess) == ~isalpha(guess)

\* if not guess.isalpha() or len(guess) != 1
not_single_letter(guess) == ~isalpha(guess) \/ Len(guess) # 1

\* already_guessed never refusing a letter
already_guessed_never(guess, guessed_set) == FALSE

\* if guess in guessed
already_guessed(guess, guessed_set) == guess[1] \in guessed_set

\* bucket keeping every word of the dictionary
bucket_unnarrowed(parts, mask) == UNION {parts[m] : m \in DOMAIN parts}

\* words = partitions[hint]
bucket(parts, mask) == parts[mask]

\* after_guess charging no guess
after_guess_never(remaining, miss) == remaining

\* after_guess charging every guess
after_guess_always(remaining, miss) == remaining - 1

\* remaining_guesses -= 1 on a miss
after_guess(remaining, miss) == IF miss THEN remaining - 1 ELSE remaining

\* complete declaring every hint complete
complete_always(h) == TRUE

\* if '-' not in hint
complete(h) == ~contains(h, "-")

\* the messages of the two ValueErrors of the letter prompt
SingleLetterError == <<"Input must be a single alphabetical letter.">>
AlreadyGuessedError(guess) == <<"You have already guessed the letter", guess>>

\* One line read at the word-length prompt, up to the next prompt.
SelectLength(text) ==
    /\ phase = "LengthSelection"
    /\ IF lower(text) = quit
       THEN Return
       ELSE IF ~int(text).ok
       THEN UNCHANGED <<phase, locals>>
       ELSE IF int(text).value = 0
       THEN /\ word_length' = 0
            /\ UNCHANGED <<phase, word_list, words, show_details, guessed,
                           remaining_guesses, hint, won, revealed, ve,
                           printed>>
       ELSE LET n == int(text).value
                filtered == words_of_length(word_list, n)
            IN  /\ word_length' = n
                /\ words' = filtered
                /\ UNCHANGED <<word_list, ve>>
                /\ IF no_words(filtered)
                   THEN UNCHANGED <<phase, show_details, guessed,
                                    remaining_guesses, hint, won, revealed,
                                    printed>>
                   ELSE /\ show_details' = (n < 0)
                        /\ printed' = <<>>
                        /\ guessed' = new_round_guessed
                        /\ remaining_guesses' = InitialGuesses
                        /\ hint' = hyphens(abs(n))
                        /\ won' = FALSE
                        /\ IF loop_condition(InitialGuesses, hyphens(abs(n)))
                           THEN /\ phase' = "Playing"
                                /\ revealed' = <<>>
                           ELSE RoundOver(FALSE, filtered)

\* One line read at the letter prompt, up to the next prompt.
GuessLetter(text) ==
    /\ phase = "Playing"
    /\ LET guess == lower(text) IN
       IF not_single_letter(guess)
       THEN /\ ve' = SingleLetterError
            /\ printed' = <<>>
            /\ UNCHANGED <<phase, words, guessed, remaining_guesses, hint,
                           won, revealed>>
       ELSE IF already_guessed(guess, guessed)
       THEN /\ ve' = AlreadyGuessedError(guess)
            /\ printed' = <<>>
            /\ UNCHANGED <<phase, words, guessed, remaining_guesses, hint,
                           won, revealed>>
       ELSE LET new_guessed == guessed \cup {guess[1]}
                partitions == partition(words, new_guessed)
            IN  \E chosen \in max_partition(partitions) :
                  LET remaining == after_guess(remaining_guesses,
                                               is_miss(guess[1], chosen))
                      is_won == complete(chosen)
                  IN  /\ ve' = <<>>
                      /\ printed' = report(guess[1], hint, chosen)
                      /\ guessed' = new_guessed
                      /\ hint' = chosen
                      /\ words' = bucket(partitions, chosen)
                      /\ remaining_guesses' = remaining
                      /\ won' = is_won
                      /\ IF ~is_won /\ loop_condition(remaining, chosen)
                         THEN /\ phase' = "Playing"
                              /\ revealed' = <<>>
                         ELSE RoundOver(is_won, bucket(partitions, chosen))
    /\ UNCHANGED <<word_list, word_length, show_details>>

\* One line read at the replay prompt.
Replay(text) ==
    /\ phase = "Replay"
    /\ LET play_again == lower(strip(text)) IN
       IF play_again \notin {<<"y">>, <<"n">>}
       THEN UNCHANGED <<phase, locals>>
       ELSE IF play_again = <<"n">>
       THEN Return
       ELSE /\ phase' = "LengthSelection"
            /\ UNCHANGED locals

Next ==
    \/ CheckWordList /\ UNCHANGED <<test_vars, pair_vars>>
    \/ \E text \in LengthInputs :
          SelectLength(text) /\ UNCHANGED <<test_vars, pair_vars>>
    \/ \E text \in LetterInputs :
          GuessLetter(text) /\ UNCHANGED <<test_vars, pair_vars>>
    \/ \E text \in ReplayInputs :
          Replay(text) /\ UNCHANGED <<test_vars, pair_vars>>

Spec == Init /\ [][Next]_vars

----------------------------------------------------------------------------
(* The unit tests *)

\* min(3, len(...)): the size of the random samples of the tests
SampleSize == 3

\* the letters a sample of guessed letters is drawn from: the characters of
\* the words and one letter that occurs in no word
TestLetters == WordChars \cup {Alphabet[NumWordLetters + 1]}

TestStart ==
    /\ test_words \in SubsetsUpTo(AllWords, SampleSize)
    /\ guessed_letters \in SUBSET TestLetters
    /\ test_word = <<>>
    /\ masked_result = <<>>
    /\ test_partitions = EmptyDict
    /\ max_part = <<>>
    /\ ran = {}

GameIdle ==
    /\ phase = "Terminated"
    /\ word_list = {}
    /\ Unbound

TestInit == TestStart /\ GameIdle /\ PairIdle

\* masked_result = mask_word(test_word, guessed_letters)
test_mask_word ==
    /\ \E word \in test_words :
         /\ test_word' = word
         /\ masked_result' = mask_word(word, guessed_letters)
    /\ ran' = ran \cup {"test_mask_word"}
    /\ UNCHANGED <<test_words, guessed_letters, test_partitions, max_part>>

\* partitions = partition(test_words, guessed_letters), also for the empty
\* set of test_partition_with_empty_word_list
test_partition ==
    /\ test_partitions' = partition(test_words, guessed_letters)
    /\ ran' = ran \cup {"test_partition"}
    /\ UNCHANGED <<test_words, guessed_letters, test_word, masked_result,
                   max_part>>

\* max_part = max_partition(partition(test_words, guessed_letters))
test_max_partition ==
    /\ test_words # {}
    /\ LET parts == partition(test_words, guessed_letters) IN
         /\ test_partitions' = parts
         /\ \E mask \in max_partition(parts) : max_part' = mask
    /\ ran' = ran \cup {"test_max_partition"}
    /\ UNCHANGED <<test_words, guessed_letters, test_word, masked_result>>

TestNext ==
    \/ test_mask_word /\ UNCHANGED <<game_vars, pair_vars>>
    \/ test_partition /\ UNCHANGED <<game_vars, pair_vars>>
    \/ test_max_partition /\ UNCHANGED <<game_vars, pair_vars>>

TestSpec == TestInit /\ [][TestNext]_vars

----------------------------------------------------------------------------
(* A game that is played on *)

\* a line of the letter prompt is accepted
AcceptStep ==
    \E text \in LetterInputs : GuessLetter(text) /\ guessed' # guessed

\* play_hangman handles every line it reads, the player answers every
\* prompt, and at the letter prompt eventually types a letter that is
\* accepted.
FairSpec == Spec /\ WF_game_vars(Next) /\ WF_game_vars(AcceptStep)

----------------------------------------------------------------------------
(* Two runs of play_hangman side by side *)

\* The second run executes the same statements as the first on its own
\* locals; the word list is the one list both runs loaded.  It keeps no
\* record of printed text.

\* return, in the second run
Return2 ==
    /\ phase2' = "Terminated"
    /\ word_length2' = 0
    /\ words2' = {}
    /\ show_details2' = FALSE
    /\ guessed2' = {}
    /\ remaining_guesses2' = 0
    /\ hint2' = <<>>
    /\ won2' = FALSE

\* if not word_list: ... return, in the second run
CheckWordList2 ==
    /\ phase2 = "Init"
    /\ IF word_list = {}
       THEN Return2
       ELSE /\ phase2' = "LengthSelection"
            /\ UNCHANGED locals2

\* One line read at the word-length prompt of the second run.
SelectLength2(text) ==
    /\ phase2 = "LengthSelection"
    /\ IF lower(text) = quit
       THEN Return2
       ELSE IF ~int(text).ok
       THEN UNCHANGED <<phase2, locals2>>
       ELSE IF int(text).value = 0
       THEN /\ word_length2' = 0
            /\ UNCHANGED <<phase2, words2, show_details2, guessed2,
                           remaining_guesses2, hint2, won2>>
       ELSE LET n == int(text).value
                filtered == words_of_length(word_list, n)
            IN  /\ word_length2' = n
                /\ words2' = filtered
                /\ IF no_words(filtered)
                   THEN UNCHANGED <<phase2, show_details2, guessed2,
                                    remaining_guesses2, hint2, won2>>
                   ELSE /\ show_details2' = (n < 0)
                        /\ guessed2' = {}
                        /\ remaining_guesses2' = InitialGuesses
                        /\ hint2' = hyphens(abs(n))
                        /\ won2' = FALSE
                        /\ phase2' =
                             IF loop_condition(InitialGuesses, hyphens(abs(n)))
                             THEN "Playing" ELSE "Replay"

\* One line read at the letter prompt of the second run.
GuessLetter2(text) ==
    /\ phase2 = "Playing"
    /\ LET guess == lower(text) IN
       IF not_single_letter(guess)
       THEN UNCHANGED <<phase2, words2, guessed2, remaining_guesses2, hint2,
                        won2>>
       ELSE IF already_guessed(guess, guessed2)
       THEN UNCHANGED <<phase2, words2, guessed2, remaining_guesses2, hint2,
                        won2>>
       ELSE LET new_guessed == guessed2 \cup {guess[1]}
                partitions == partition(words2, new_guessed)
            IN  \E chosen \in max_partition(partitions) :
                  LET remaining == after_guess(remaining_guesses2,
                                               is_miss(guess[1], chosen))
                      is_won == complete(chosen)
                  IN  /\ guessed2' = new_guessed
                      /\ hint2' = chosen
                      /\ words2' = bucket(partitions, chosen)
                      /\ remaining_guesses2' = remaining
                      /\ won2' = is_won
                      /\ phase2' =
                           IF ~is_won /\ loop_condition(remaining, chosen)
                           THEN "Playing" ELSE "Replay"
    /\ UNCHANGED <<word_length2, show_details2>>

\* One line read at the replay prompt of the second run.
Replay2(text) ==
    /\ phase2 = "Replay"
    /\ LET play_again == lower(strip(text)) IN
       IF play_again \notin {<<"y">>, <<"n">>}
       THEN UNCHANGED <<phase2, locals2>>
       ELSE IF play_again = <<"n">>
       THEN Return2
       ELSE /\ phase2' = "LengthSelection"
            /\ UNCHANGED locals2

\* the line asking for the same length with the other sign; any other line
\* is typed as it is
other_sign(text) ==
    LET n == int(text).value IN
    IF ~int(text).ok \/ n = 0 THEN text
    ELSE IF n > 0 THEN <<"-", Digits[n + 1]>>
    ELSE <<Digits[abs(n) + 1]>>

\* the masks random.choice may return for a line of the letter prompt
choices(word_set, guessed_set, text) ==
    IF not_single_letter(lower(text)) \/ already_guessed(lower(text), guessed_set)
    THEN {}
    ELSE max_partition(partition(word_set, guessed_set \cup {lower(text)[1]}))

PairStart ==
    /\ phase = "Init"
    /\ word_list \in WordLists
    /\ Unbound
    /\ phase2 = "Init"
    /\ Unbound2

PairInit == PairStart /\ TestsIdle

\* both runs test the word list
PairCheckWordList == CheckWordList /\ CheckWordList2

\* both runs are asked for a length: the same line, but with the sign of a
\* length reversed in the second run
PairSelectLength(text) == SelectLength(text) /\ SelectLength2(other_sign(text))

\* both runs read the same line at the letter prompt, and random.choice
\* makes the same choice in both wherever the first run's choice is open to
\* the second
PairGuessLetter(text) ==
    /\ GuessLetter(text)
    /\ GuessLetter2(text)
    /\ (hint' \in choices(words2, guessed2, text) => hint2' = hint')

\* both runs read the same line at the replay prompt
PairReplay(text) == Replay(text) /\ Replay2(text)

PairNext ==
    \/ PairCheckWordList /\ UNCHANGED test_vars
    \/ \E text \in LengthInputs : PairSelectLength(text) /\ UNCHANGED test_vars
    \/ \E text \in LetterInputs : PairGuessLetter(text) /\ UNCHANGED test_vars
    \/ \E text \in ReplayInputs : PairReplay(text) /\ UNCHANGED test_vars

PairSpec == PairInit /\ [][PairNext]_vars

----------------------------------------------------------------------------
(* Properties of mask_word, partition and max_partition (TestSpec) *)

size(parts, mask) == Cardinality(parts[mask])

\* the number of positions of a pattern that are not the placeholder
revealed_count(mask) == Len(mask) - count(mask, "-")

\* C1: when the candidate set is not empty, the pattern max_partition
\* returns for partition(C, g) is a key of that dictionary and no bucket is
\* strictly larger than the bucket of the returned key, whichever element
\* random.choice picks.
C1_SelectReturnsLargestKey ==
    "test_max_partition" \in ran =>
        /\ max_part \in DOMAIN test_partitions
        /\ \A mask \in DOMAIN test_partitions :
               size(test_partitions, mask) <= size(test_partitions, max_part)

\* a selection made among buckets of different sizes
C1_Witness ==
    /\ "test_max_partition" \in ran
    /\ max_part \in DOMAIN test_partitions
    /\ \E mask \in DOMAIN test_partitions :
           size(test_partitions, mask) < size(test_partitions, max_part)

\* C2: among the patterns whose bucket has the maximum size, the selector
\* returns one with the fewest revealed positions: no pattern of the same
\* bucket size reveals fewer positions than the returned one.
C2_SelectPrefersFewestRevealed ==
    "test_max_partition" \in ran =>
        \A mask \in DOMAIN test_partitions :
            size(test_partitions, mask) = size(test_partitions, max_part)
                => revealed_count(max_part) <= revealed_count(mask)

\* C3: partition(C, g) is a partition of C: the buckets are pairwise
\* disjoint, their union is C, every word of the bucket keyed p masks to p
\* under g, and no bucket is empty (so an empty C gives no key at all).
C3_PartitionIsPartition ==
    "test_partition" \in ran =>
        /\ \A p, q \in DOMAIN test_partitions :
               p # q => test_partitions[p] \cap test_partitions[q] = {}
        /\ UNION {test_partitions[p] : p \in DOMAIN test_partitions} = test_words
        /\ \A p \in DOMAIN test_partitions :
               /\ test_partitions[p] # {}
               /\ \A w \in test_partitions[p] : mask_word(w, guessed_letters) = p
        /\ (test_words = {} => DOMAIN test_partitions = {})

\* a dictionary with two buckets, one of them holding two words
C3_Witness ==
    /\ "test_partition" \in ran
    /\ \E p, q \in DOMAIN test_partitions :
           p # q /\ Cardinality(test_partitions[p]) >= 2

\* C4: mask_word(w, g) is as long as w, and position i holds w[i] if w[i]
\* is in g and '-' otherwise; when every letter of w is in g it is w.
C4_MaskWordPositions ==
    "test_mask_word" \in ran =>
        /\ Len(masked_result) = Len(test_word)
        /\ \A i \in 1..Len(test_word) :
               masked_result[i] = IF test_word[i] \in guessed_letters
                                  THEN test_word[i] ELSE "-"
        /\ ((\A i \in 1..Len(test_word) : test_word[i] \in guessed_letters)
               => masked_result = test_word)

\* a masked word with a revealed and a hidden position
C4_Witness ==
    /\ "test_mask_word" \in ran
    /\ \E i, j \in 1..Len(test_word) :
           /\ test_word[i] \in guessed_letters /\ masked_result[i] = test_word[i]
           /\ test_word[j] \notin guessed_letters /\ masked_result[j] = "-"

----------------------------------------------------------------------------
(* Properties of a round of play_hangman (Spec) *)

\* a round is being played or has just ended
InRound == phase \in {"Playing", "Replay"}

\* a step of the letter prompt that accepted its line
AcceptedGuess == phase = "Playing" /\ guessed' # guessed

\* the letter an accepted guess added
accepted_letter == CHOOSE letter \in guessed' \ guessed : TRUE

\* every word of the set masks to the pattern under the guess set
AllMatch(word_set, guessed_set, pattern) ==
    \A w \in word_set : mask_word(w, guessed_set) = pattern

\* C5: in a round every candidate word matches every pattern emitted so
\* far.  The pattern just emitted is matched by every candidate under the
\* current guess set, and an accepted guess keeps every earlier guess set
\* and leaves matched, under every earlier guess set, each pattern that all
\* candidates matched before it; so the pattern of turn k, matched when it
\* was emitted, is matched in every later state of the round.
C5_CandidatesMatchEmitted ==
    /\ [](InRound => AllMatch(words, guessed, hint))
    /\ [][AcceptedGuess =>
            /\ guessed \subseteq guessed'
            /\ \A earlier \in SUBSET guessed :
                 \A pattern \in {mask_word(w, earlier) : w \in words} :
                    AllMatch(words, earlier, pattern)
                        => AllMatch(words', earlier, pattern)]_vars

\* after two accepted guesses the candidates have been narrowed and a
\* letter is shown
C5_Witness ==
    /\ phase = "Playing"
    /\ Cardinality(guessed) >= 2
    /\ \E i \in 1..Len(hint) : hint[i] # "-"
    /\ words # words_of_length(word_list, word_length)

\* C6: in a round every candidate word has length L = abs(word_length),
\* and the candidates after an accepted guess are a subset of the
\* candidates before it.
C6_CandidatesOnlyShrink ==
    /\ [](InRound => \A w \in words : Len(w) = abs(word_length))
    /\ [][AcceptedGuess => words' \subseteq words]_vars

\* a round of two-letter words after a guess that removed a candidate
C6_Witness ==
    /\ InRound
    /\ abs(word_length) = 2
    /\ guessed # {}
    /\ \E w \in words_of_length(word_list, word_length) : w \notin words

\* C7: max_partition is never given an empty dictionary: the candidate set
\* is not empty when the letter prompt is reached nor after an accepted
\* guess, and the dictionary built for any letter that can still be
\* accepted has a key.
C7_SelectorNeverOnEmpty ==
    /\ InRound => words # {}
    /\ phase = "Playing" =>
         \A letter \in GuessLetters \ guessed :
             DOMAIN partition(words, guessed \cup {letter}) # {}

\* the letter prompt reached again with one candidate left
C7_Witness ==
    /\ phase = "Playing"
    /\ guessed # {}
    /\ Cardinality(words) = 1

\* C8: an accepted guess lowers remaining_guesses by exactly 1 if the
\* letter does not occur in the new hint and leaves it unchanged if it does;
\* no other step of a round changes it, and it is never negative.
C8_MissCostsOneGuess ==
    /\ [](InRound => remaining_guesses >= 0)
    /\ [][AcceptedGuess =>
            remaining_guesses' =
                IF \E i \in 1..Len(hint') : hint'[i] = accepted_letter
                THEN remaining_guesses ELSE remaining_guesses - 1]_vars
    /\ [][InRound /\ phase' \in {"Playing", "Replay"} /\ ~AcceptedGuess
            => remaining_guesses' = remaining_guesses]_vars

\* a round in which a miss and a hit have both been counted
C8_Witness ==
    /\ InRound
    /\ remaining_guesses < InitialGuesses
    /\ \E i \in 1..Len(hint) : hint[i] # "-"

\* a line that is a single alphabetic character
SingleAlphabetic(text) ==
    /\ Len(text) = 1
    /\ text[1] \in LowerLetters \cup DOMAIN Upper

\* a line the letter prompt has to refuse
Refused(text) ==
    \/ ~SingleAlphabetic(text)
    \/ lower(text)[1] \in guessed

\* C9: a line of the letter prompt that is not a single alphabetic
\* character, or whose lowered letter is already guessed, is refused with
\* an error and leaves the guessed letters, the candidates, the remaining
\* guesses, the hint and the phase as they were.
C9_RefusedLetterChangesNothing ==
    [][\A text \in LetterInputs :
          (phase = "Playing" /\ Refused(text) /\ GuessLetter(text))
              => /\ ve' # <<>>
                 /\ UNCHANGED <<guessed, words, remaining_guesses, hint,
                                phase, won>>]_vars

\* a repeated letter has been refused in the middle of a round
C9_Witness ==
    /\ phase = "Playing"
    /\ \E letter \in guessed : ve = AlreadyGuessedError(<<letter>>)
    /\ remaining_guesses < InitialGuesses

\* the round has ended with the win message
Won == phase = "Replay" /\ won /\ revealed = <<>>

\* the round has ended with the loss message
Lost == phase = "Replay" /\ ~won /\ revealed # <<>>

\* C10: after an accepted guess the round is Won if the new hint has no
\* placeholder, otherwise Lost if no guess remains, otherwise still
\* Playing; so the letter prompt is only reached with a guess remaining and
\* a placeholder in the hint, and a round is never both Won and Lost.
C10_OutcomeOrder ==
    /\ [](phase = "Playing" => remaining_guesses > 0 /\ contains(hint, "-"))
    /\ [](phase = "Replay" => (Won \/ Lost) /\ ~(Won /\ Lost))
    /\ [][AcceptedGuess =>
            IF ~contains(hint', "-")
            THEN phase' = "Replay" /\ won' /\ revealed' = <<>>
            ELSE IF remaining_guesses' = 0
            THEN phase' = "Replay" /\ ~won' /\ revealed' # <<>>
            ELSE phase' = "Playing"]_vars

\* a round lost on its last guess while a letter was shown
C10_Witness ==
    /\ Lost
    /\ remaining_guesses = 0
    /\ \E i \in 1..Len(hint) : hint[i] # "-"

\* C11: when a round is Lost the word shown is one of the final
\* candidates, so it has length L and masks to the final hint under the
\* final guesses; and the words the loss message may show are all the
\* final candidates.
C11_RevealedIsCandidate ==
    Lost =>
        /\ revealed \in words
        /\ Len(revealed) = abs(word_length)
        /\ mask_word(revealed, guessed) = hint
        /\ \A w \in words : w \in loss_reveal(words)

\* a round lost with two candidates left, the second of them shown
C11_Witness ==
    /\ Lost
    /\ Cardinality(words) = 2
    /\ revealed \in words
    /\ revealed # (CHOOSE w \in words : TRUE)

\* C12: an accepted guess of a letter that occurs in no candidate gives a
\* dictionary with the single key hint; the hint and the candidates stay
\* as they were, the guess is a miss and costs exactly one guess.
C12_AbsentLetterIsMiss ==
    [][(AcceptedGuess /\ \A w \in words : ~contains(w, accepted_letter))
          => /\ DOMAIN partition(words, guessed') = {hint}
             /\ hint' = hint
             /\ ~contains(hint', accepted_letter)
             /\ remaining_guesses' = remaining_guesses - 1
             /\ words' = words]_vars

\* a round in which a letter of no word of the chosen length was guessed
C12_Witness ==
    /\ InRound
    /\ remaining_guesses < InitialGuesses
    /\ Cardinality(words) = 2
    /\ \E letter \in guessed :
           \A w \in words_of_length(word_list, word_length) :
               ~contains(w, letter)

\* C13: at the length prompt a request of zero, or one whose absolute
\* value is the length of no word of the list, is refused and the length
\* prompt is entered again; the letter prompt is only entered by a non-zero
\* request for which a word of that length exists.
C13_LengthRefused ==
    /\ [][phase = "LengthSelection" =>
            \A text \in LengthInputs :
               (/\ int(text).ok
                /\ \/ int(text).value = 0
                   \/ \A w \in word_list : Len(w) # abs(int(text).value)
                /\ SelectLength(text))
                  => phase' = "LengthSelection"]_vars
    /\ [][phase # "Playing" /\ phase' = "Playing" =>
            /\ phase = "LengthSelection"
            /\ word_length' # 0
            /\ \E w \in word_list : Len(w) = abs(word_length')]_vars
    /\ [](phase = "Playing" =>
            /\ word_length # 0
            /\ \E w \in word_list : Len(w) = abs(word_length))

\* the length prompt entered again after a length without words
C13_Witness ==
    /\ phase = "LengthSelection"
    /\ word_list # {}
    /\ word_length # 0
    /\ words = {}

\* C14: the letter prompt is only entered from the length prompt, and
\* every time with the candidates being exactly the words of the list of
\* length L, no guessed letter, 5 remaining guesses, a hint of L
\* placeholders and no win, whatever the previous round left; no step of a
\* running game changes the word list.
C14_RoundStartsFresh ==
    /\ [][phase # "Playing" /\ phase' = "Playing" =>
            /\ phase = "LengthSelection"
            /\ words' = {w \in word_list : Len(w) = abs(word_length')}
            /\ guessed' = {}
            /\ remaining_guesses' = 5
            /\ hint' = [i \in 1..abs(word_length') |-> "-"]
            /\ won' = FALSE
            /\ revealed' = <<>>]_vars
    /\ [][phase' # "Terminated" => word_list' = word_list]_vars

\* the length prompt of a later round, the locals still holding what a
\* lost round left
C14_Witness ==
    /\ phase = "LengthSelection"
    /\ guessed # {}
    /\ remaining_guesses = 0
    /\ revealed # <<>>

\* the lines that spell the quit keyword
QuitLines == {<<"q", "u", "i", "t">>, <<"Q", "u", "i", "t">>}

AnyInputs == LengthInputs \cup LetterInputs \cup ReplayInputs

\* C16 as claimed: the quit keyword typed at the length prompt, at the
\* letter prompt or at the replay prompt ends the session.
C16_QuitEndsAtEveryPrompt ==
    [][\A text \in AnyInputs \cap QuitLines :
          (SelectLength(text) \/ GuessLetter(text) \/ Replay(text))
              => phase' = "Terminated"]_vars

\* C16 as amended: the quit keyword, in any letter case, ends the session
\* at the length prompt only; at the letter prompt it is refused as not
\* being a single letter and the round goes on unchanged, and at the replay
\* prompt it is refused and the prompt is repeated with nothing changed.
C16_QuitOnlyAtLengthPrompt ==
    [][\A text \in AnyInputs \cap QuitLines :
          /\ SelectLength(text) => phase' = "Terminated"
          /\ GuessLetter(text) =>
                /\ ve' = SingleLetterError
                /\ UNCHANGED <<phase, words, guessed, remaining_guesses,
                               hint, won>>
          /\ Replay(text) => UNCHANGED <<phase, locals>>]_vars

\* the letter prompt after a line that is not a single letter was refused
\* in the middle of a round
C16_Witness ==
    /\ phase = "Playing"
    /\ ve = SingleLetterError
    /\ guessed # {}
    /\ Cardinality(words) = 1

\* an accepted guess counted as a hit
Hit == AcceptedGuess /\ contains(hint', accepted_letter)

\* C17 as claimed: there are accepted guesses counted as a hit after which
\* the hint equals the previous hint, so that both lines are printed: a
\* session in which a round is played to its end has such a guess.
C17_NoProgressOnHits ==
    <>(phase = "Replay") =>
        <>(printed = <<"is in the word", "did not change the word">>)

\* C17 as amended: the no-progress signal is given exactly for the accepted
\* guesses counted as a miss and never for a hit, and the count is the one
\* of the miss: one guess less on a miss, none less on a hit.
C17_NoProgressIsMiss ==
    /\ [](printed \in {<<>>, <<"is in the word">>,
                       <<"is not in the word", "did not change the word">>})
    /\ [][AcceptedGuess =>
            /\ no_progress(hint, hint') <=> ~contains(hint', accepted_letter)
            /\ remaining_guesses' =
                  IF no_progress(hint, hint')
                  THEN remaining_guesses - 1 ELSE remaining_guesses]_vars

\* the signal given for a miss that came after a hit
C17_Witness ==
    /\ phase = "Playing"
    /\ printed = <<"is not in the word", "did not change the word">>
    /\ \E i \in 1..Len(hint) : hint[i] # "-"

\* C18: an accepted guess keeps every revealed position of the hint, and a
\* position that changes goes from the placeholder to the guessed letter;
\* every letter shown in the hint has been guessed.
C18_HintOnlyGainsLetters ==
    /\ [](InRound => \A i \in 1..Len(hint) :
                        hint[i] # "-" => hint[i] \in guessed)
    /\ [][AcceptedGuess =>
            /\ Len(hint') = Len(hint)
            /\ \A i \in 1..Len(hint) :
                 /\ hint[i] # "-" => hint'[i] = hint[i]
                 /\ hint'[i] # hint[i] =>
                       hint[i] = "-" /\ hint'[i] = accepted_letter]_vars
    /\ [][InRound /\ phase' \in {"Playing", "Replay"} /\ ~AcceptedGuess
            => hint' = hint]_vars

\* a hint showing two different letters
C18_Witness ==
    /\ InRound
    /\ \E i, j \in 1..Len(hint) :
           hint[i] # "-" /\ hint[j] # "-" /\ hint[i] # hint[j]

\* C19: when a round is Won the only candidate left is the word the hint
\* spells, which is a word of the list; the winning guess was a hit and at
\* least one guess remains.
C19_WonWordIsOnlyCandidate ==
    /\ [](Won => /\ words = {hint}
                 /\ hint \in word_list
                 /\ remaining_guesses >= 1)
    /\ [][AcceptedGuess /\ won' =>
            /\ contains(hint', accepted_letter)
            /\ remaining_guesses' = remaining_guesses]_vars

\* a round won with its last guess
C19_Witness ==
    /\ Won
    /\ remaining_guesses = 1
    /\ words = {hint}

\* the misses and the hits counted so far in the round
misses == InitialGuesses - remaining_guesses
hits == Cardinality(guessed) - misses

\* what is left of the round: the guesses left and the positions not yet
\* revealed
left == remaining_guesses + count(hint, "-")

\* C20: a round has at most 5 misses and at most L hits, every hit reveals
\* a position, and it is over after at most L + 4 accepted guesses.  While
\* the round is on, something is left of it, every accepted guess takes
\* from what is left, and the round goes on to Won or Lost and nowhere
\* else: a player who keeps typing accepted letters reaches Won or Lost.
C20_RoundTerminates ==
    /\ [](InRound =>
            /\ misses >= 0 /\ misses <= 5
            /\ hits >= 0 /\ hits <= abs(word_length)
            /\ Cardinality(guessed) <= abs(word_length) + 4
            /\ left >= 0
            /\ left + Cardinality(guessed) <= 5 + abs(word_length))
    /\ [][Hit => \E i \in 1..Len(hint) : hint[i] = "-" /\ hint'[i] # "-"]_vars
    /\ [][AcceptedGuess => left' < left]_vars
    /\ [][phase = "Playing" /\ phase' # "Playing" => Won' \/ Lost']_vars

\* a round of two-letter words that took all its six guesses
C20_Witness ==
    /\ phase = "Replay"
    /\ abs(word_length) = 2
    /\ Cardinality(guessed) = 6

----------------------------------------------------------------------------
(* The sign of the length (PairSpec) *)

\* C15: two runs on the same word list that are given the same lines and
\* the same random choices, except that every length is asked with the
\* opposite sign in the second run, are always at the same prompt with the
\* same candidates, guessed letters, remaining guesses, hint and outcome;
\* while a round is on they differ exactly in show_details.
C15_SignIsPresentationOnly ==
    /\ phase2 = phase
    /\ words2 = words
    /\ guessed2 = guessed
    /\ remaining_guesses2 = remaining_guesses
    /\ hint2 = hint
    /\ won2 = won
    /\ phase \in {"Playing", "Replay"} =>
         /\ word_length2 = 0 - word_length
         /\ show_details2 = ~show_details

\* the two runs, one of them showing details, after a guess that removed a
\* candidate and revealed a letter
C15_Witness ==
    /\ phase = "Playing" /\ phase2 = "Playing"
    /\ show_details /\ ~show_details2
    /\ guessed # {} /\ guessed2 = guessed
    /\ words # words_of_length(word_list, word_length)
    /\ \E i \in 1..Len(hint) : hint[i] # "-"

====
